---- MODULE Spec2Model ----
(***************************************************************************)
(* agentsync: the self-copy guard of src/fs.rs and the parse_existing      *)
(* functions of src/mcp.rs, as they appear (before and after rewriting) in *)
(* the maintenance scripts fix_clippy.py, fix_clippy_v2.py and             *)
(* fix_clippy_v3.py, together with the scripts themselves.  What the       *)
(* scripts do not show of the directory copier, the config merger and the  *)
(* orchestrator follows the design document.                               *)
(***************************************************************************)
EXTENDS Integers, Sequences

VARIABLES
  fs,      \* the filesystem: path -> [k: "dir" | "file" | "link", to: link target]
  last,    \* the last directory-copy request and its outcome
  copies,  \* directory copies performed so far
  fsRs,    \* the form of the self-copy guard that src/fs.rs holds
  adapter,    \* the tool adapter of the merge target
  canonical,  \* the canonical server set: name -> value
  doc,        \* the content of the adapter's destination file
  mergeLog,   \* the outcome of each merge run so far on the destination
  mcpRs,      \* the forms of the two parse_existing functions that src/mcp.rs holds
  orig,       \* the forms src/fs.rs and src/mcp.rs held before any script ran
  probe,      \* the input on which the fragments of the two files are evaluated
  targets,    \* the sync targets of the run
  pos,        \* the target the orchestrator processes next
  report,     \* the per-target results recorded so far
  overall     \* the run's result: status and the failing targets

vars == <<fs, last, copies, fsRs, adapter, canonical, doc, mergeLog,
          mcpRs, orig, probe, targets, pos, report, overall>>
copyVars == <<fs, last, copies>>
mergeVars == <<adapter, canonical, doc, mergeLog>>
patchVars == <<fsRs, mcpRs, orig, probe>>
syncVars == <<targets, pos, report, overall>>

(***************************************************************************)
(* Bounds                                                                  *)
(***************************************************************************)
MaxDepth == 4     \* longest path (in components) a copy may create
MaxHops == 3      \* symbolic links followed by one canonicalization
MaxCopies == 1    \* directory copies that write to the filesystem
MaxVal == 2       \* scalar values are 1..MaxVal
MaxMerges == 2    \* merge runs on one destination

(***************************************************************************)
(* Option values (Rust's Option<T>): None is {}, Some(v) is {v}            *)
(***************************************************************************)
None == {}
Some(v) == {v}
IsSome(o) == o # {}
Unwrap(o) == CHOOSE v \in o : TRUE
AndThen(o, F(_)) == IF o = None THEN None ELSE F(Unwrap(o))
Filter(o, P(_)) == IF o = None THEN None ELSE IF P(Unwrap(o)) THEN o ELSE None

(***************************************************************************)
(* Paths: sequences of components below the root <<>>                      *)
(***************************************************************************)
Root == <<>>
Dir == [k |-> "dir", to |-> Root]
File == [k |-> "file", to |-> Root]
Link(target) == [k |-> "link", to |-> target]

Parent(p) == SubSeq(p, 1, Len(p) - 1)

\* Path::parent: lexical, None for the root
PathParent(p) == IF p = Root THEN None ELSE Some(Parent(p))

\* Path::starts_with: whole components, never a string prefix
StartsWith(p, base) ==
  /\ Len(base) <= Len(p)
  /\ SubSeq(p, 1, Len(base)) = base

Ok(p) == [ok |-> TRUE, path |-> p]
Err == [ok |-> FALSE, path |-> Root]
\* Result::ok
ResultOk(r) == IF r.ok THEN Some(r.path) ELSE None

\* realpath: components resolved left to right from cur; a missing
\* component, a component below a file, or too many links fail
RECURSIVE CanonFrom(_, _, _, _)
CanonFrom(f, cur, rest, hops) ==
  IF rest = <<>> THEN Ok(cur)
  ELSE IF f[cur].k # "dir" THEN Err
  ELSE IF Head(rest) = ".." THEN CanonFrom(f, Parent(cur), Tail(rest), hops)
  ELSE LET nxt == Append(cur, Head(rest)) IN
       IF nxt \notin DOMAIN f THEN Err
       ELSE IF f[nxt].k = "link"
            THEN IF hops = 0 THEN Err
                 ELSE CanonFrom(f, Root, f[nxt].to \o Tail(rest), hops - 1)
            ELSE CanonFrom(f, nxt, Tail(rest), hops)

\* std::fs::canonicalize: fails when the path does not exist
Canonicalize(f, p) == CanonFrom(f, Root, p, MaxHops)

\* the walk up from the first n components of p to the nearest ancestor that
\* canonicalizes (the root always does)
RECURSIVE ExistingPrefix(_, _, _)
ExistingPrefix(f, p, n) ==
  IF n = 0 \/ Canonicalize(f, SubSeq(p, 1, n)).ok THEN n
  ELSE ExistingPrefix(f, p, n - 1)

\* PathResolver: canonicalize the nearest existing ancestor and reattach
\* the missing suffix
ResolvePath(f, p) ==
  LET n == ExistingPrefix(f, p, Len(p)) IN
  Canonicalize(f, SubSeq(p, 1, n)).path \o SubSeq(p, n + 1, Len(p))

(***************************************************************************)
(* The self-copy guard of src/fs.rs, in each form the scripts show.        *)
(* TRUE: the copy returns InvalidInput "Cannot copy directory into itself" *)
(***************************************************************************)
\* if let Some(parent) { if let Ok(parent_canon) { if starts_with { Err } } }
GuardNested(f, dst_abs, src_canon) ==
  IF IsSome(PathParent(dst_abs))
  THEN LET parent == Unwrap(PathParent(dst_abs)) IN
       IF Canonicalize(f, parent).ok
       THEN LET parent_canon == Canonicalize(f, parent).path IN
            IF StartsWith(parent_canon, src_canon) THEN TRUE ELSE FALSE
       ELSE FALSE
  ELSE FALSE

\* if let Some(parent_canon) = parent().and_then(canonicalize.ok()) { if starts_with { Err } }
GuardChain(f, dst_abs, src_canon) ==
  LET o == AndThen(PathParent(dst_abs), LAMBDA p : ResultOk(Canonicalize(f, p))) IN
  IF IsSome(o)
  THEN LET parent_canon == Unwrap(o) IN
       IF StartsWith(parent_canon, src_canon) THEN TRUE ELSE FALSE
  ELSE FALSE

\* if let Some(parent_canon) = parent().and_then(..).filter(starts_with) { Err }
GuardFilterLet(f, dst_abs, src_canon) ==
  LET o == Filter(AndThen(PathParent(dst_abs),
                          LAMBDA p : ResultOk(Canonicalize(f, p))),
                  LAMBDA p : StartsWith(p, src_canon)) IN
  IF o # None THEN TRUE ELSE FALSE

\* the same chain without its filter: a guard that rejects every destination
\* whose parent exists
GuardNoFilter(f, dst_abs, src_canon) ==
  IsSome(AndThen(PathParent(dst_abs), LAMBDA p : ResultOk(Canonicalize(f, p))))

\* the same chain on the parent as written, not canonicalized
GuardLexical(f, dst_abs, src_canon) ==
  IsSome(Filter(PathParent(dst_abs), LAMBDA p : StartsWith(p, src_canon)))

\* if parent().and_then(..).filter(starts_with).is_some() { Err }
GuardFilterIsSome(f, dst_abs, src_canon) ==
  IsSome(Filter(AndThen(PathParent(dst_abs),
                        LAMBDA p : ResultOk(Canonicalize(f, p))),
                LAMBDA p : StartsWith(p, src_canon)))

GuardForms == {"nested", "chain", "filter_let", "filter_is_some"}

\* the guard as the current text of src/fs.rs evaluates it
SelfCopyGuard(form, f, dst_abs, src_canon) ==
  CASE form = "nested" -> GuardNested(f, dst_abs, src_canon)
    [] form = "chain" -> GuardChain(f, dst_abs, src_canon)
    [] form = "filter_let" -> GuardFilterLet(f, dst_abs, src_canon)
    [] form = "filter_is_some" -> GuardFilterIsSome(f, dst_abs, src_canon)

(***************************************************************************)
(* ValueModel: a tree value is [t, n, m]: a null, a number n, or a mapping *)
(* m from keys to values.  A key is <<kind, text>>: YAML keys may be       *)
(* strings, integers or null; JSON keys are strings.                       *)
(***************************************************************************)
EmptyMap == [k \in {} |-> 0]
Null == [t |-> "null", n |-> 0, m |-> EmptyMap]
Num(n) == [t |-> "num", n |-> n, m |-> EmptyMap]
Map(m) == [t |-> "map", n |-> 0, m |-> m]

StrKey(s) == <<"str", s>>
IntKey(s) == <<"int", s>>
NullKey == <<"null", "~">>

\* the order in which a document lists the keys of a mapping
KeyOrder == <<StrKey("a"), StrKey("b"), StrKey(""), StrKey("1"), StrKey("2"),
              StrKey("mcpServers"), StrKey("unrelated"),
              IntKey("1"), IntKey("2"), NullKey>>

\* m overridden by o
Override(m, o) ==
  [k \in DOMAIN m \cup DOMAIN o |-> IF k \in DOMAIN o THEN o[k] ELSE m[k]]

\* Value::get(key): the value under a string key of a mapping
Get(v, key) ==
  IF v.t = "map" /\ StrKey(key) \in DOMAIN v.m THEN Some(v.m[StrKey(key)]) ELSE None

\* Value::as_mapping, Value::as_object
AsMapping(v) == IF v.t = "map" THEN Some(v.m) ELSE None

\* the default taken for every key, string or not
KeyStrAlwaysDefault(k) == ""

\* k.as_str().unwrap_or_default().to_string(): the empty string for a key
\* that is no string
KeyStr(k) == IF k[1] = "str" THEN k[2] ELSE ""

\* serde_json::to_value of a YAML value: an integer key of a nested mapping
\* becomes its decimal string, a null key is an error
RECURSIVE ToJsonValue(_)
ToJsonValue(v) ==
  IF v.t # "map" THEN [ok |-> TRUE, val |-> v]
  ELSE LET sub == [k \in DOMAIN v.m |-> ToJsonValue(v.m[k])] IN
       IF \E k \in DOMAIN v.m : k[1] = "null" \/ ~sub[k].ok
       THEN [ok |-> FALSE, val |-> Null]
       ELSE LET names == {k[2] : k \in DOMAIN v.m}
                \* a string key and an integer key of the same text: the later wins
                src(nm) == IF IntKey(nm) \in DOMAIN v.m THEN IntKey(nm) ELSE StrKey(nm)
            IN [ok |-> TRUE,
                val |-> Map([k \in {StrKey(nm) : nm \in names} |-> sub[src(k[2])].val])]

\* whether a tree can be written in JSON syntax: string keys only
RECURSIVE IsJson(_)
IsJson(v) ==
  v.t = "map" => \A k \in DOMAIN v.m : k[1] = "str" /\ IsJson(v.m[k])

(***************************************************************************)
(* File content: missing, corrupt text, or the text of a document tree     *)
(***************************************************************************)
Missing == [tag |-> "missing", root |-> Null]
Corrupt == [tag |-> "corrupt", root |-> Null]
Doc(root) == [tag |-> "doc", root |-> root]

\* serde_yaml::from_str(content): an error for text that is no YAML
YamlFromStr(content) ==
  IF content.tag = "doc" THEN [ok |-> TRUE, val |-> content.root]
  ELSE [ok |-> FALSE, val |-> Null]

\* serde_json::from_str(content): an error for text that is no JSON
JsonFromStr(content) ==
  IF content.tag = "doc" /\ IsJson(content.root)
  THEN [ok |-> TRUE, val |-> content.root]
  ELSE [ok |-> FALSE, val |-> Null]

\* .unwrap_or(json!({}))
UnwrapOrEmpty(r) == IF r.ok THEN r.val ELSE Map(EmptyMap)

(***************************************************************************)
(* parse_existing of src/mcp.rs: Result<HashMap<String, Value>>            *)
(***************************************************************************)
OkMap(m) == [ok |-> TRUE, map |-> m]
ErrParse == [ok |-> FALSE, map |-> EmptyMap]

\* for (k, v) in obj { res.insert(key_str, to_value(v)?) } from position i
\* of the document's key order
RECURSIVE InsertAll(_, _, _)
InsertAll(obj, i, res) ==
  IF i > Len(KeyOrder) THEN OkMap(res)
  ELSE LET k == KeyOrder[i] IN
       IF k \notin DOMAIN obj THEN InsertAll(obj, i + 1, res)
       ELSE LET json_v == ToJsonValue(obj[k]) IN
            IF ~json_v.ok THEN ErrParse
            ELSE InsertAll(obj, i + 1,
                           Override(res, [n \in {KeyStr(k)} |-> json_v.val]))

\* obj.iter().map(|(k, v)| (k.clone(), v.clone())).collect()
CollectObject(obj) == [n \in {k[2] : k \in DOMAIN obj} |-> obj[StrKey(n)]]

\* YAML adapter, nested form: if let Some(key) { if let Some(wrapped) {
\* if let Some(obj) { ... return Ok(res) } } } Ok(HashMap::new())
YamlParseNested(wrapper_key, content) ==
  LET parsed == YamlFromStr(content) IN
  IF ~parsed.ok THEN ErrParse
  ELSE IF IsSome(wrapper_key)
       THEN LET key == Unwrap(wrapper_key) IN
            IF IsSome(Get(parsed.val, key))
            THEN LET wrapped == Unwrap(Get(parsed.val, key)) IN
                 IF IsSome(AsMapping(wrapped))
                 THEN InsertAll(Unwrap(AsMapping(wrapped)), 1, EmptyMap)
                 ELSE OkMap(EmptyMap)
            ELSE OkMap(EmptyMap)
       ELSE OkMap(EmptyMap)

\* the chain with the parse failure swallowed: unwrap_or_default for `?`
YamlParseLenient(wrapper_key, content) ==
  LET parsed == YamlFromStr(content)
      o == AndThen(AndThen(wrapper_key, LAMBDA key : Get(parsed.val, key)),
                   LAMBDA v : AsMapping(v)) IN
  IF IsSome(o) THEN InsertAll(Unwrap(o), 1, EmptyMap) ELSE OkMap(EmptyMap)

\* YAML adapter, chained form: if let Some(obj) = self.wrapper_key
\* .and_then(|key| parsed.get(key)).and_then(|v| v.as_mapping()) { ... }
YamlParseChain(wrapper_key, content) ==
  LET parsed == YamlFromStr(content) IN
  IF ~parsed.ok THEN ErrParse
  ELSE LET o == AndThen(AndThen(wrapper_key, LAMBDA key : Get(parsed.val, key)),
                        LAMBDA v : AsMapping(v)) IN
       IF IsSome(o) THEN InsertAll(Unwrap(o), 1, EmptyMap) ELSE OkMap(EmptyMap)

\* Continue adapter, nested form: if let Some(mcp) = parsed.get("mcpServers")
\* { if let Some(obj) = mcp.as_object() { return Ok(..) } } Ok(HashMap::new())
ContinueParseNested(content) ==
  LET parsed == UnwrapOrEmpty(JsonFromStr(content)) IN
  IF IsSome(Get(parsed, "mcpServers"))
  THEN LET mcp == Unwrap(Get(parsed, "mcpServers")) IN
       IF IsSome(AsMapping(mcp))
       THEN OkMap(CollectObject(Unwrap(AsMapping(mcp))))
       ELSE OkMap(EmptyMap)
  ELSE OkMap(EmptyMap)

\* Continue adapter, chained form: if let Some(obj) =
\* parsed.get("mcpServers").and_then(|mcp| mcp.as_object()) { return Ok(..) }
ContinueParseChain(content) ==
  LET parsed == UnwrapOrEmpty(JsonFromStr(content))
      o == AndThen(Get(parsed, "mcpServers"), LAMBDA mcp : AsMapping(mcp)) IN
  IF IsSome(o) THEN OkMap(CollectObject(Unwrap(o))) ELSE OkMap(EmptyMap)

(***************************************************************************)
(* ToolAdapter and ConfigMerger                                            *)
(***************************************************************************)
ContinueAdapter == [format |-> "json", wrapper_key |-> Some("mcpServers")]
YamlAdapter(wrapper_key) == [format |-> "yaml", wrapper_key |-> wrapper_key]
Adapters == {ContinueAdapter, YamlAdapter(None), YamlAdapter(Some("mcpServers"))}

ParseExisting(a, content) ==
  IF a.format = "yaml" THEN YamlParseChain(a.wrapper_key, content)
  ELSE ContinueParseChain(content)

\* read step: a missing file is the empty existing document
ReadExisting(a, content) ==
  IF content.tag = "missing" THEN OkMap(EmptyMap) ELSE ParseExisting(a, content)

\* merge step: every canonical name set in the working subtree
MergeServers(existing, canon) == Override(existing, canon)

\* the document tree the adapter's format reads from the file
ParsedRoot(a, content) ==
  LET r == IF a.format = "yaml" THEN YamlFromStr(content) ELSE JsonFromStr(content) IN
  IF r.ok /\ r.val.t = "map" THEN r.val.m ELSE EmptyMap

\* write-back step: the merged subtree under the wrapper key beside the
\* sibling keys, or as the whole document
WriteBack(a, content, merged) ==
  LET sub == Map([k \in {StrKey(n) : n \in DOMAIN merged} |-> merged[k[2]]]) IN
  IF IsSome(a.wrapper_key)
  THEN Doc(Map(Override(ParsedRoot(a, content),
                        [k \in {StrKey(Unwrap(a.wrapper_key))} |-> sub])))
  ELSE Doc(sub)

\* one merge run on a destination: its result and the content it leaves
MergeConfig(a, content, canon) ==
  LET existing == ReadExisting(a, content) IN
  IF ~existing.ok THEN [result |-> "parse_error", content |-> content]
  ELSE [result |-> "ok",
        content |-> WriteBack(a, content, MergeServers(existing.map, canon))]

\* the inputs
Values == {Num(n) : n \in 1..MaxVal}
YamlValues == Values \cup {Map([k \in {IntKey("1")} |-> Num(1)]),
                           Map([k \in {NullKey} |-> Num(1)])}
EntryKeys == {StrKey("a"), IntKey("1"), IntKey("2")}
EntryMaps == UNION {[ks -> YamlValues] : ks \in SUBSET EntryKeys}
CanonicalSets == UNION {[ns -> Values] : ns \in SUBSET {"a", "b"}}
Unrelated == [k \in {StrKey("unrelated")} |-> Num(1)]
Contents ==
  {Missing, Corrupt, Doc(Null), Doc(Map(Unrelated))}
  \cup {Doc(Map(Override(Unrelated, m))) : m \in EntryMaps}
  \cup {Doc(Map(Override(Unrelated, [k \in {StrKey("mcpServers")} |-> Num(1)])))}
  \cup {Doc(Map(Override(Unrelated, [k \in {StrKey("mcpServers")} |-> Map(m)]))) :
          m \in EntryMaps}

(***************************************************************************)
(* DirectoryCopier                                                         *)
(***************************************************************************)
\* the entries below directory d, relative to it
EntriesBelow(f, d) ==
  {SubSeq(p, Len(d) + 1, Len(p)) : p \in {q \in DOMAIN f : StartsWith(q, d) /\ q # d}}

\* the entry a request of this kind puts at the mirror of source entry s
Replica(f, s, kind) ==
  IF kind = "copy" \/ f[s].k = "dir" THEN f[s] ELSE Link(s)

\* the same test on the destination as written, not resolved
SameRootLexical(f, dst_abs, src_canon) == dst_abs = src_canon

\* destination root canonically equal to the source root
SameRoot(f, dst_abs, src_canon) == ResolvePath(f, dst_abs) = src_canon

\* what a copy of src_canon to dst_abs writes: the missing ancestors of the
\* destination root, the root, and one replica per source entry
Written(f, src_canon, dst_abs, kind) ==
  LET dreal == ResolvePath(f, dst_abs)
      ancestors == {SubSeq(dreal, 1, n) : n \in 0..Len(dreal)}
      rels == EntriesBelow(f, src_canon)
      dom == {a \in ancestors : a \notin DOMAIN f} \cup {dreal}
               \cup {dreal \o r : r \in rels}
  IN [p \in dom |->
        IF Len(p) > Len(dreal)
        THEN Replica(f, src_canon \o SubSeq(p, Len(dreal) + 1, Len(p)), kind)
        ELSE Dir]

\* f with the entries w written over it; what lay below an entry that is no
\* longer a directory is gone
Overwrite(f, w) ==
  LET keep == {p \in DOMAIN f \ DOMAIN w :
                 \A q \in DOMAIN w : w[q].k # "dir" => ~StartsWith(p, q)}
  IN [p \in keep \cup DOMAIN w |-> IF p \in DOMAIN w THEN w[p] ELSE f[p]]

\* one directory-copy request: its result, the entries it wrote, the
\* filesystem it leaves
CopyDirAll(form, f, src, dst_abs, kind) ==
  LET sc == Canonicalize(f, src) IN
  IF ~sc.ok \/ (sc.ok /\ f[sc.path].k # "dir")
  THEN [result |-> "source_missing", written |-> {}, fs |-> f]
  ELSE IF SameRoot(f, dst_abs, sc.path) \/ SelfCopyGuard(form, f, dst_abs, sc.path)
  THEN [result |-> "into_itself", written |-> {}, fs |-> f]
  ELSE LET dreal == ResolvePath(f, dst_abs)
           w == Written(f, sc.path, dst_abs, kind) IN
       IF \/ ".." \in {dreal[i] : i \in 1..Len(dreal)}
          \/ \E n \in 0..Len(dreal) :
                /\ SubSeq(dreal, 1, n) \in DOMAIN f
                /\ f[SubSeq(dreal, 1, n)].k # "dir"
       THEN [result |-> "io_error", written |-> {}, fs |-> f]
       ELSE [result |-> "ok", written |-> DOMAIN w, fs |-> Overwrite(f, w)]

\* the requests and the entries other programs make
Sources == {<<"S">>, <<"L">>, <<"X">>}
Dests == {<<"S">>, <<"L">>, <<"S", "sub">>, <<"L", "sub">>, <<"S", "a", "b">>,
          <<"T", "sub">>, <<"T", "..", "S", "sub">>}
Kinds == {"symlink", "copy"}

NoRequest == [src |-> Root, dst |-> Root, kind |-> "none", result |-> "none",
              srcCanon |-> Err, parentCanon |-> Err, dstReal |-> Root,
              written |-> {}, before |-> {}, after |-> {}]

InitFs == [p \in {Root, <<"S">>, <<"S", "f">>, <<"T">>} |->
             IF p = <<"S", "f">> THEN File ELSE Dir]

(***************************************************************************)
(* The parts of the state a specification leaves alone                     *)
(***************************************************************************)
YamlText(let, lookup) == [let |-> let, lookup |-> lookup]
CurrentMcp == [yaml |-> YamlText("two", "chain_self"), continue |-> "chain"]
NoProbe == [kind |-> "none", dst |-> Root, src |-> Root, key |-> None,
            content |-> Missing]

IdleCopy == fs = InitFs /\ last = NoRequest /\ copies = 0
IdleMerge ==
  adapter = ContinueAdapter /\ canonical = EmptyMap /\ doc = Missing /\ mergeLog = <<>>
IdlePatch ==
  /\ mcpRs = CurrentMcp
  /\ orig = [fs |-> fsRs, mcp |-> mcpRs]
  /\ probe = NoProbe
IdleSync ==
  /\ targets = <<>>
  /\ pos = 1
  /\ report = <<>>
  /\ overall = [status |-> "running", errors |-> <<>>]

InitCopy ==
  /\ fs = InitFs
  /\ last = NoRequest
  /\ copies = 0
  /\ fsRs \in GuardForms
  /\ IdleMerge
  /\ IdlePatch
  /\ IdleSync

\* another program makes the directory S/a
MkDir ==
  /\ <<"S", "a">> \notin DOMAIN fs
  /\ fs' = Overwrite(fs, [p \in {<<"S", "a">>} |-> Dir])
  /\ UNCHANGED <<last, copies, mergeVars, patchVars, syncVars>>

\* another program makes the symbolic link L -> S
MkLink ==
  /\ <<"L">> \notin DOMAIN fs
  /\ fs' = Overwrite(fs, [p \in {<<"L">>} |-> Link(<<"S">>)])
  /\ UNCHANGED <<last, copies, mergeVars, patchVars, syncVars>>

CopyDir ==
  \E src \in Sources, dst \in Dests, kind \in Kinds :
    LET out == CopyDirAll(fsRs, fs, src, dst, kind) IN
    /\ \A p \in out.written : Len(p) <= MaxDepth
    /\ out.result = "ok" => copies < MaxCopies
    /\ copies' = IF out.result = "ok" THEN copies + 1 ELSE copies
    /\ fs' = out.fs
    /\ last' = [src |-> src, dst |-> dst, kind |-> kind, result |-> out.result,
                srcCanon |-> Canonicalize(fs, src),
                parentCanon |-> Canonicalize(fs, Parent(dst)),
                dstReal |-> ResolvePath(fs, dst),
                written |-> out.written,
                before |-> DOMAIN fs,
                after |-> DOMAIN out.fs]
    /\ UNCHANGED <<mergeVars, patchVars, syncVars>>

NextCopy == MkDir \/ MkLink \/ CopyDir

SpecCopy == InitCopy /\ [][NextCopy]_vars

InitMerge ==
  /\ adapter \in Adapters
  /\ canonical \in CanonicalSets
  /\ doc \in Contents
  /\ mergeLog = <<>>
  /\ IdleCopy
  /\ fsRs = "filter_is_some"
  /\ IdlePatch
  /\ IdleSync

Merge ==
  /\ Len(mergeLog) < MaxMerges
  /\ LET out == MergeConfig(adapter, doc, canonical) IN
     /\ doc' = out.content
     /\ mergeLog' = Append(mergeLog, [before |-> doc, result |-> out.result,
                                      after |-> out.content])
  /\ UNCHANGED <<adapter, canonical, copyVars, patchVars, syncVars>>

NextMerge == Merge

SpecMerge == InitMerge /\ [][NextMerge]_vars

(***************************************************************************)
(* The maintenance scripts: each reads src/fs.rs and src/mcp.rs, replaces  *)
(* the fragments it names and writes the files back                        *)
(***************************************************************************)
\* str.replace on a fragment: the old text, where the file holds it,
\* becomes the new text
Replace(text, old, new) == IF text = old THEN new ELSE text

\* parse_existing of the YAML adapter as a text of src/mcp.rs evaluates it
YamlParseExisting(text, wrapper_key, content) ==
  IF text.lookup = "nested" THEN YamlParseNested(wrapper_key, content)
  ELSE YamlParseChain(wrapper_key, content)

\* parse_existing of the Continue adapter as a text of src/mcp.rs evaluates it
ContinueParseExisting(form, content) ==
  IF form = "nested" THEN ContinueParseNested(content)
  ELSE ContinueParseChain(content)

\* the texts of the YAML parse_existing: its `let parsed` statement on one
\* line or two, and its lookup nested, chained on one line (fix_clippy.py),
\* chained on three lines (fix_clippy_v2.py) or chained from `self` on its
\* own line (fix_clippy_v3.py)
YamlTexts == {YamlText("one", "nested"), YamlText("two", "nested"),
              YamlText("one", "chain1"), YamlText("one", "chain3"),
              YamlText("two", "chain_self")}
ContinueForms == {"nested", "chain"}

\* fix_clippy.py
FixClippy ==
  /\ fsRs' = Replace(fsRs, "nested", "chain")
  /\ mcpRs' = [yaml |-> YamlText(mcpRs.yaml.let,
                                 Replace(mcpRs.yaml.lookup, "nested", "chain1")),
               continue |-> Replace(mcpRs.continue, "nested", "chain")]
  /\ UNCHANGED <<orig, probe, copyVars, mergeVars, syncVars>>

\* fix_clippy_v2.py: src/mcp.rs only
FixClippyV2 ==
  /\ mcpRs' = [yaml |-> Replace(mcpRs.yaml, YamlText("one", "nested"),
                                YamlText("one", "chain3")),
               continue |-> Replace(mcpRs.continue, "nested", "chain")]
  /\ UNCHANGED <<fsRs, orig, probe, copyVars, mergeVars, syncVars>>

\* fix_clippy_v3.py: src/fs.rs is rewritten; src/mcp.rs is read, its old
\* and new texts are defined, and nothing is replaced or written
FixClippyV3 ==
  /\ fsRs' = Replace(fsRs, "filter_let", "filter_is_some")
  /\ UNCHANGED <<mcpRs, orig, probe, copyVars, mergeVars, syncVars>>

ProbeFs ==
  {InitFs,
   Overwrite(InitFs, [p \in {<<"L">>} |-> Link(<<"S">>)]),
   Overwrite(InitFs, [p \in {<<"S", "a">>} |-> Dir]),
   Overwrite(InitFs, [p \in {<<"L">>, <<"S", "a">>} |->
                        IF p = <<"L">> THEN Link(<<"S">>) ELSE Dir])}
GuardProbes ==
  {[kind |-> "guard", dst |-> d, src |-> <<"S">>, key |-> None, content |-> Missing] :
     d \in Dests \cup {Root}}
ParseProbes ==
  {[kind |-> "parse", dst |-> Root, src |-> Root, key |-> k, content |-> c] :
     k \in {None, Some("mcpServers")}, c \in Contents \ {Missing}}

InitPatch ==
  /\ fsRs \in GuardForms
  /\ mcpRs \in [yaml : YamlTexts, continue : ContinueForms]
  /\ orig = [fs |-> fsRs, mcp |-> mcpRs]
  /\ \/ probe \in GuardProbes /\ fs \in ProbeFs
     \/ probe \in ParseProbes /\ fs = InitFs
  /\ last = NoRequest
  /\ copies = 0
  /\ IdleMerge
  /\ IdleSync

NextPatch == FixClippy \/ FixClippyV2 \/ FixClippyV3

SpecPatch == InitPatch /\ [][NextPatch]_vars

(***************************************************************************)
(* SyncOrchestrator                                                        *)
(***************************************************************************)
DirTarget(src, dst, kind) ==
  [type |-> "dir", src |-> src, dst |-> dst, kind |-> kind,
   adapter |-> ContinueAdapter, content |-> Missing]
ToolTarget(a, content) ==
  [type |-> "tool", src |-> Root, dst |-> Root, kind |-> "none",
   adapter |-> a, content |-> content]

\* one target dispatched to the copier or the merger: its result and the
\* filesystem it leaves
RunTarget(form, f, t, canon) ==
  IF t.type = "dir"
  THEN LET out == CopyDirAll(form, f, t.src, t.dst, t.kind) IN
       [result |-> out.result, fs |-> out.fs]
  ELSE [result |-> MergeConfig(t.adapter, t.content, canon).result, fs |-> f]

\* an orchestrator that stops at the first failing target
AfterTargetAbort(n, i, result) == IF result = "ok" THEN i + 1 ELSE n + 1

\* continue-on-error: the target after target i of n, whatever i's result
AfterTarget(n, i, result) == i + 1

\* the run's result from the per-target results
Aggregate(rep) ==
  LET failing == SelectSeq(rep, LAMBDA r : r.result # "ok") IN
  [status |-> IF failing = <<>> THEN "success" ELSE "partial_failure",
   errors |-> failing]

MaxTargets == 3
TargetPool ==
  {DirTarget(<<"S">>, <<"T", "sub">>, "copy"),
   DirTarget(<<"S">>, <<"S", "sub">>, "copy"),
   DirTarget(<<"X">>, <<"T", "sub">>, "symlink"),
   ToolTarget(YamlAdapter(Some("mcpServers")), Corrupt),
   ToolTarget(ContinueAdapter, Corrupt)}
SyncCanonical == [n \in {"b"} |-> Num(1)]

InitSync ==
  /\ targets \in UNION {[1..n -> TargetPool] : n \in 0..MaxTargets}
  /\ pos = 1
  /\ report = <<>>
  /\ overall = [status |-> "running", errors |-> <<>>]
  /\ IdleCopy
  /\ fsRs = "filter_is_some"
  /\ adapter = ContinueAdapter
  /\ canonical = SyncCanonical
  /\ doc = Missing
  /\ mergeLog = <<>>
  /\ IdlePatch

\* the orchestrator processes its next target and records the result
ProcessTarget ==
  /\ overall.status = "running"
  /\ pos <= Len(targets)
  /\ LET out == RunTarget(fsRs, fs, targets[pos], canonical) IN
     /\ fs' = out.fs
     /\ report' = Append(report, [index |-> pos, target |-> targets[pos],
                                  result |-> out.result])
     /\ pos' = AfterTarget(Len(targets), pos, out.result)
  /\ UNCHANGED <<targets, overall, last, copies, mergeVars, patchVars>>

\* no target is left: the report is aggregated into the run's result
Finish ==
  /\ overall.status = "running"
  /\ pos > Len(targets)
  /\ overall' = Aggregate(report)
  /\ UNCHANGED <<targets, pos, report, copyVars, mergeVars, patchVars>>

NextSync == ProcessTarget \/ Finish

SpecSync == InitSync /\ [][NextSync]_vars

(***************************************************************************)
(* Properties of the directory copier                                      *)
(***************************************************************************)
Requested == last.kind # "none"
NothingWritten == last.written = {} /\ last.after = last.before

\* C1: a copy whose destination's parent exists and canonicalizes to the
\* source or to a path inside it fails with the into-itself error and
\* creates nothing, for D = S/sub and for D = L/sub with L a link to S.
C1_NestedParentRejected ==
  (/\ Requested
   /\ last.srcCanon.ok
   /\ last.parentCanon.ok
   /\ StartsWith(last.parentCanon.path, last.srcCanon.path))
  => (last.result = "into_itself" /\ NothingWritten)

C1_Witness ==
  /\ last.src = <<"S">>
  /\ last.dst = <<"L", "sub">>
  /\ last.parentCanon = Ok(<<"S">>)
  /\ last.result = "into_itself"

\* C2: after any copy request no destination exists whose canonical path is
\* the canonical source or a descendant of it, also when the destination's
\* parent does not exist yet.
C2_NoDestinationInsideSource ==
  ~(/\ Requested
    /\ last.result = "ok"
    /\ last.dstReal \in last.after
    /\ StartsWith(last.dstReal, last.srcCanon.path))

Runs == DOMAIN mergeLog
\* the content does not parse in the adapter's format
Unparsable(a, content) ==
  /\ content.tag # "missing"
  /\ IF a.format = "yaml" THEN ~YamlFromStr(content).ok ELSE ~JsonFromStr(content).ok
\* the document a merge into the empty existing document leaves
MergedIntoEmpty(a, content) == WriteBack(a, content, MergeServers(EmptyMap, canonical))

OutsideKeys(a, content) ==
  LET root == ParsedRoot(a, content) IN
  IF IsSome(a.wrapper_key)
  THEN DOMAIN root \ {StrKey(Unwrap(a.wrapper_key))}
  ELSE DOMAIN root \ {StrKey(n) : n \in DOMAIN canonical}

\* C5: the merged document keeps unchanged every key of the existing
\* document outside the wrapper-key subtree or, with no wrapper key, every
\* key that is no canonical server name.
C5_OutsideKeysPreserved ==
  \A i \in Runs :
    LET r == mergeLog[i] IN
    \A k \in OutsideKeys(adapter, r.before) :
      /\ r.after.tag = "doc"
      /\ r.after.root.t = "map"
      /\ k \in DOMAIN r.after.root.m
      /\ r.after.root.m[k] = ParsedRoot(adapter, r.before)[k]

\* C6: with no wrapper key the document root is the working subtree: every
\* entry at the root is an existing server entry and is in the merged
\* document beside the canonical entries.
C6_RootIsWorkingSubtree ==
  \A i \in Runs :
    LET r == mergeLog[i] IN
    (adapter.wrapper_key = None /\ r.result = "ok")
    => \A k \in DOMAIN ParsedRoot(adapter, r.before) :
         k[1] = "str" => (r.after.root.t = "map" /\ k \in DOMAIN r.after.root.m)

\* C7: a second merge of the same canonical set, with no edit in between,
\* leaves the document the first merge left.
C7_MergeIdempotent ==
  \A i \in Runs : i > 1 => mergeLog[i].after = mergeLog[i - 1].after

C7_Witness ==
  /\ Len(mergeLog) >= 2
  /\ mergeLog[1].result = "ok"
  /\ mergeLog[1].after # mergeLog[1].before
  /\ mergeLog[2].result = "ok"
  /\ DOMAIN canonical # {}

\* the working subtree of a content, when it is a mapping
WorkingSubtree(a, content) ==
  LET root == Map(ParsedRoot(a, content)) IN
  IF IsSome(a.wrapper_key)
  THEN AndThen(Get(root, Unwrap(a.wrapper_key)), LAMBDA v : AsMapping(v))
  ELSE Some(root.m)

\* C9: every entry of the working subtree whose name is not canonical is
\* in the merged document under the same key with the same value, whatever
\* the key, string or not.
C9_ManualEntriesSurvive ==
  \A i \in Runs :
    LET r == mergeLog[i]
        before == WorkingSubtree(adapter, r.before)
        after == WorkingSubtree(adapter, r.after) IN
    (IsSome(adapter.wrapper_key) /\ IsSome(before))
    => \A k \in DOMAIN Unwrap(before) :
         (k[1] = "str" => k[2] \notin DOMAIN canonical)
         => /\ IsSome(after)
            /\ k \in DOMAIN Unwrap(after)
            /\ \/ Unwrap(after)[k] = Unwrap(before)[k]
               \/ Unwrap(after)[k] = ToJsonValue(Unwrap(before)[k]).val

(***************************************************************************)
(* Properties of the orchestrator                                          *)
(***************************************************************************)
Finished == overall.status # "running"
SelfNestingExample ==
  <<DirTarget(<<"S">>, <<"T", "sub">>, "copy"),
    DirTarget(<<"S">>, <<"S", "sub">>, "copy"),
    ToolTarget(ContinueAdapter, Corrupt)>>

C10_RewritesPreserveBehaviour ==
  /\ probe.kind = "guard" =>
       /\ SelfCopyGuard(fsRs, fs, probe.dst, probe.src)
            = SelfCopyGuard(orig.fs, fs, probe.dst, probe.src)
       /\ SelfCopyGuard(fsRs, fs, probe.dst, probe.src)
            <=> /\ probe.dst # Root
                /\ Canonicalize(fs, Parent(probe.dst)).ok
                /\ StartsWith(Canonicalize(fs, Parent(probe.dst)).path, probe.src)
  /\ probe.kind = "parse" =>
       /\ YamlParseExisting(mcpRs.yaml, probe.key, probe.content)
            = YamlParseExisting(orig.mcp.yaml, probe.key, probe.content)
       /\ ContinueParseExisting(mcpRs.continue, probe.content)
            = ContinueParseExisting(orig.mcp.continue, probe.content)
       /\ (/\ probe.content.tag = "doc"
           /\ \/ probe.key = None
              \/ Get(probe.content.root, Unwrap(probe.key)) = None
              \/ AsMapping(Unwrap(Get(probe.content.root, Unwrap(probe.key)))) = None)
          => YamlParseExisting(mcpRs.yaml, probe.key, probe.content) = OkMap(EmptyMap)

C10_Witness ==
  /\ probe.kind = "parse"
  /\ orig.mcp.yaml.lookup = "nested"
  /\ mcpRs.yaml.lookup = "chain3"
  /\ orig.mcp.continue = "nested"
  /\ mcpRs.continue = "chain"
  /\ YamlParseExisting(mcpRs.yaml, probe.key, probe.content).ok
  /\ DOMAIN YamlParseExisting(mcpRs.yaml, probe.key, probe.content).map # {}

====
